---- MODULE Spec2Model ----
(***************************************************************************)
(* Model of the Instagram-clone backend of src/main.py: the FastAPI write  *)
(* endpoints, the Telegram relay client (upload_to_telegram), the Firebase *)
(* REST client and the background tasks.  Every handler is cut at its      *)
(* outbound calls (one action per relay or store call, together with the   *)
(* local code that follows it up to the next call), so that requests of    *)
(* different workers interleave at the storage layer.                      *)
(***************************************************************************)
EXTENDS Integers, Sequences, FiniteSets, TLC

\* ------------------------------------------------------------------ bounds
\* number of requests the model serves in one behaviour
MaxRequests == 2
\* longest list of files enumerated exhaustively for /upload-post/
MaxFiles == 2
\* longest text, in characters, on which the extractors are run exhaustively
MaxTextLen == 4

\* ------------------------------------------------------- program constants
\* main.py:218  10 * 1024 * 1024
MAX_FILE_SIZE == 10485760
\* main.py:186  len(files) > 10
MAX_FILES_PER_POST == 10

\* A content type "image/jpeg" is the pair <<"image", "jpeg">>, so that
\* str.startswith('image/') is a test of its first component.

\* (variant that lets text/plain through)
POST_ALLOWED_TYPES_Mutant ==
    {<<"image", "jpeg">>, <<"image", "png">>, <<"image", "gif">>, <<"video", "mp4">>,
     <<"image", "webp">>, <<"text", "plain">>}
\* main.py:208
POST_ALLOWED_TYPES ==
    {<<"image", "jpeg">>, <<"image", "png">>, <<"image", "gif">>, <<"video", "mp4">>,
     <<"image", "webp">>}
\* main.py:334
STORY_ALLOWED_TYPES == {<<"image", "jpeg">>, <<"image", "png">>, <<"video", "mp4">>}

\* ------------------------------------------------------------ text helpers
\* Strings the code scans are sequences of one-character strings.
IsSpace(c) == c = " "

RECURSIVE LStrip(_)
LStrip(s) == IF s /= <<>> /\ IsSpace(Head(s)) THEN LStrip(Tail(s)) ELSE s

RECURSIVE RStrip(_)
RStrip(s) ==
    IF s /= <<>> /\ IsSpace(s[Len(s)]) THEN RStrip(SubSeq(s, 1, Len(s) - 1)) ELSE s

\* str.strip()
Strip(s) == RStrip(LStrip(s))

\* content_type.startswith('image/')
IsImageType(ct) == ct[1] = "image"

\* "image" if content_type.startswith('image/') else "video"   (main.py:229, 359)
MediaType(ct) == IF IsImageType(ct) THEN "image" ELSE "video"

\* \w of the regular expressions, over the characters the model's texts use
WordChars == {"a", "b", "A", "B", "1", "_"}
IsWordChar(c) == c \in WordChars

\* str.lower(), character by character
LowerChar(c) == CASE c = "A" -> "a" [] c = "B" -> "b" [] OTHER -> c
Lower(s) == [k \in 1..Len(s) |-> LowerChar(s[k])]

\* the longest run of word characters of s that starts at position k
RECURSIVE WordRun(_, _)
WordRun(s, k) ==
    IF k <= Len(s) /\ IsWordChar(s[k]) THEN <<s[k]>> \o WordRun(s, k + 1) ELSE <<>>

\* re.findall(marker + r'(\w+)', text), scanning from position k
RECURSIVE FindAll(_, _, _)
FindAll(marker, s, k) ==
    IF k > Len(s) THEN <<>>
    ELSE IF s[k] = marker /\ WordRun(s, k + 1) /= <<>>
         THEN <<WordRun(s, k + 1)>> \o FindAll(marker, s, k + 1 + Len(WordRun(s, k + 1)))
         ELSE FindAll(marker, s, k + 1)

extract_hashtags_Mutant(text) ==
    [k \in 1..Len(FindAll("#", text, 1)) |-> Lower(FindAll("#", text, 1)[k])]
extract_hashtags(text) == FindAll("#", text, 1)
extract_mentions(text) == FindAll("@", text, 1)

\* ---------------------------------------------------------------- JSON values
JNum(n) == [t |-> "num", n |-> n, s |-> ""]
JStr(s) == [t |-> "str", n |-> 0, s |-> s]
JAbsent == [t |-> "absent", n |-> 0, s |-> ""]


\* -------------------------------------------------------------- exceptions
\* The classes the handlers' except clauses tell apart.  Every class is an
\* Exception; HTTPError, ConnectionError and Timeout are RequestExceptions.
IsRequestException(e) == e \in {"RequestException", "HTTPError", "ConnectionError"}
IsException(e) == e /= ""

\* ------------------------------------------------------- the document store
\* The Firebase database is a record of its collections:
\*   posts      post_id -> the fields of posts/{post_id} the handlers write
\*   user_posts the pointers user_posts/{user_id}/{post_id}
\*   timeline   the pushed pointers, in push order
\*   stories, likes, comments, activities   the keys written
\*   follows    key -> follow record
\*   users      user_id -> the fields of users/{user_id}
\*   hashtags   tag -> metadata/post_count
EmptyDb ==
    [posts |-> << >>, user_posts |-> {}, timeline |-> << >>, stories |-> {},
     likes |-> {}, comments |-> {}, follows |-> << >>, users |-> << >>,
     hashtags |-> << >>, activities |-> {}]

\* f with key k bound to v (k need not be in DOMAIN f)
Put(f, k, v) == [x \in (DOMAIN f) \cup {k} |-> IF x = k THEN v ELSE f[x]]

\* a node of posts/{post_id} that no PUT has written yet
NoPost == [body |-> FALSE, user_id |-> << >>, media |-> << >>, hashtags |-> << >>,
           like_count |-> JAbsent, comment_count |-> JAbsent]
\* a node of users/{user_id} that no PUT has written yet
NoUser == [profile |-> FALSE, posts |-> JAbsent, followers |-> JAbsent,
           following |-> JAbsent, last_post_at |-> FALSE]

PostNode(d, pid) == IF pid \in DOMAIN d.posts THEN d.posts[pid] ELSE NoPost
UserNode(d, uid) == IF uid \in DOMAIN d.users THEN d.users[uid] ELSE NoUser

\* FirebaseRESTClient.set_data(path, data) once the PUT has succeeded: the node at
\* path is replaced by data.  path is <<collection, key, ...>>.
set_data(d, path, data) ==
    CASE path[1] = "users" -> [d EXCEPT !.users = Put(@, path[2], data)]
      [] path[1] = "posts" -> [d EXCEPT !.posts = Put(@, path[2], data)]
      [] path[1] = "user_posts" -> [d EXCEPT !.user_posts = @ \cup {<<path[2], path[3]>>}]
      [] path[1] = "stories" -> [d EXCEPT !.stories = @ \cup {<<path[2], path[3]>>}]
      [] path[1] = "likes" -> [d EXCEPT !.likes = @ \cup {<<path[2], path[3]>>}]
      [] path[1] = "comments" -> [d EXCEPT !.comments = @ \cup {<<path[2], path[3]>>}]
      [] path[1] = "follows" -> [d EXCEPT !.follows = Put(@, path[2], data)]
      [] path[1] = "hashtags" -> [d EXCEPT !.hashtags = Put(@, path[2], data)]

\* FirebaseRESTClient.push_data(path, data) once the POST has succeeded: data is
\* appended under a key the store generates.
push_data(d, path, data) ==
    CASE path[1] = "timeline" -> [d EXCEPT !.timeline = Append(@, data)]
      [] path[1] = "activities" -> [d EXCEPT !.activities = @ \cup {data}]

\* (variant in which the PATCH replaces the node at path by the children it names)
update_data_Mutant(d, path, field, value) ==
    CASE path[1] = "posts" ->
            [d EXCEPT !.posts = Put(@, path[2], [NoPost EXCEPT ![field] = value])]
      [] path[1] = "users" ->
            [d EXCEPT !.users = Put(@, path[2], [NoUser EXCEPT ![field] = value])]

\* FirebaseRESTClient.update_data(path, {field: value}) once the PATCH has
\* succeeded: the named child of path is written, the other children are left
\* alone, and a path that did not exist comes into being with that child only.
update_data(d, path, field, value) ==
    CASE path[1] = "posts" /\ path[3] = "engagement" ->
            [d EXCEPT !.posts = Put(@, path[2], [PostNode(d, path[2]) EXCEPT ![field] = value])]
      [] path[1] = "users" /\ path[3] = "counts" ->
            [d EXCEPT !.users = Put(@, path[2], [UserNode(d, path[2]) EXCEPT ![field] = value])]
      [] path[1] = "users" /\ path[3] = "metadata" ->
            [d EXCEPT !.users = Put(@, path[2], [UserNode(d, path[2]) EXCEPT ![field] = value])]

\* ---------------------------------------------------------- the relay client
\* str.split(","): the pieces of s between the commas (at least one piece)
RECURSIVE Split(_, _)
Split(s, acc) ==
    IF s = << >> THEN <<acc>>
    ELSE IF Head(s) = "," THEN <<acc>> \o Split(Tail(s), << >>)
    ELSE Split(Tail(s), Append(acc, Head(s)))

\* os.getenv("TELEGRAM_BOT_TOKENS", "").split(",")   (main.py:35)
TokensOfEnv(env) == Split(env, << >>)

\* [token.strip() for token in TELEGRAM_BOT_TOKENS if token.strip()]   (main.py:86)
RECURSIVE AvailableTokens(_)
AvailableTokens(tokens) ==
    IF tokens = << >> THEN << >>
    ELSE IF Strip(Head(tokens)) /= << >>
         THEN <<Strip(Head(tokens))>> \o AvailableTokens(Tail(tokens))
         ELSE AvailableTokens(Tail(tokens))

\* What the Telegram API can answer to the one POST of upload_to_telegram:
\*   net     the request got an HTTP response (no transport error, no timeout)
\*   http    the status is a success status (raise_for_status() passes)
\*   ok      the "ok" member of the JSON body: "true", "false" or "missing"
\*   result  the shape of the "result" member: "missing", or an object holding
\*           a non-empty "photo" list, an empty "photo" list, a "document", a
\*           "video", or none of the three ("none")
ResultShapes == {"missing", "photo", "photo_empty", "document", "video", "none"}
RelayResponses ==
    {[net |-> FALSE, http |-> FALSE, ok |-> "missing", result |-> "missing"],
     [net |-> TRUE, http |-> FALSE, ok |-> "missing", result |-> "missing"],
     [net |-> TRUE, http |-> TRUE, ok |-> "false", result |-> "missing"],
     [net |-> TRUE, http |-> TRUE, ok |-> "missing", result |-> "missing"]}
    \cup {[net |-> TRUE, http |-> TRUE, ok |-> "true", result |-> r] : r \in ResultShapes}

\* The exception the body of upload_to_telegram's try block raises on a
\* response ("" when it returns file_info)   (main.py:583-607)
RelayBodyRaises(resp) ==
    IF ~resp.net THEN "ConnectionError"
    ELSE IF ~resp.http THEN "HTTPError"
    ELSE IF resp.ok /= "true" THEN "TelegramUploadError"
    ELSE CASE resp.result = "missing" -> "KeyError"
           [] resp.result = "photo" -> ""
           [] resp.result = "photo_empty" -> "IndexError"
           [] resp.result = "document" -> ""
           [] resp.result = "video" -> ""
           [] OTHER -> "TelegramUploadError"

\* upload_to_telegram(file_content, filename, content_type) with the credentials
\* `tokens` configured, when the API answers resp: the exception that leaves the
\* function ("" when it returns) and the number of HTTP calls it made.
\* `pick` is random.choice's index into the available credentials.
upload_to_telegram(tokens, pick, resp) ==
    IF AvailableTokens(tokens) = << >>
    THEN [raised |-> "TelegramUploadError", http_calls |-> 0, token |-> << >>]
    ELSE [raised |-> IF IsRequestException(RelayBodyRaises(resp))
                     THEN "TelegramUploadError"
                     ELSE RelayBodyRaises(resp),
          http_calls |-> 1,
          token |-> AvailableTokens(tokens)[pick]]

\* the indexes random.choice can return
Picks(tokens) == IF AvailableTokens(tokens) = << >> THEN {1} ELSE 1..Len(AvailableTokens(tokens))

\* --------------------------------------------------------------- the inputs
\* user ids the clients send
Users == {<<"a">>, <<"a", "_", "a">>}
\* form values of `token`
TokenInputs == {<< >>, <<" ", " ">>, <<" ", "a">>}
\* values of the TELEGRAM_BOT_TOKENS environment variable at import time
EnvInputs == {<< >>, <<"A", ",", " ", ",", "B", " ">>}
\* captions
CaptionInputs == {<<"#", "A", " ", "#", "a", "!", "#">>}
\* uploaded files: a content type and a length in bytes
FileInputs ==
    {[content_type |-> <<"image", "jpeg">>, size |-> MAX_FILE_SIZE],
     [content_type |-> <<"text", "plain">>, size |-> 1],
     [content_type |-> <<"video", "mp4">>, size |-> MAX_FILE_SIZE + 1]}
\* the one file of /upload-story/
StoryFileInputs == FileInputs \cup {[content_type |-> <<"image", "gif">>, size |-> 1]}
\* the lists of files of /upload-post/: every list of at most MaxFiles files, and
\* lists of MAX_FILES_PER_POST and MAX_FILES_PER_POST + 1 files
FileListInputs ==
    UNION {[1..n -> FileInputs] : n \in 0..MaxFiles}
    \cup {[k \in 1..n |-> IF k \in {3, 10} THEN [content_type |-> <<"image", "jpeg">>, size |-> MAX_FILE_SIZE]
                                        ELSE [content_type |-> <<"text", "plain">>, size |-> 1]] :
            n \in {MAX_FILES_PER_POST, MAX_FILES_PER_POST + 1}}

\* ------------------------------------------------------------------- state
VARIABLES
    bot_tokens,   \* TELEGRAM_BOT_TOKENS, read from the environment at import time
    db,           \* the Firebase database
    req,          \* the requests being served, one per worker
    served,       \* number of requests that have arrived
    next_id       \* number of uuid4() values handed out; the next one is next_id + 1

vars == <<bot_tokens, db, req, served, next_id>>

\* the workers that serve requests side by side
Workers == {1, 2}

Kinds == {"create_user", "upload_post", "upload_story", "like_post", "add_comment",
          "follow_user"}

\* A request and the position of its handler:
\*   kind, token, user_id, other_id, post_id, files, caption   the form fields
\*       (other_id is following_id of /follow-user/, files the one file of a story)
\*   pc           the outbound call the handler is about to make, "tasks" once the
\*                response is sent and background tasks remain, "done" at the end
\*   i            position in files of the file being processed (order_index + 1)
\*   new_id       the uuid4() the handler generated for its record (0: none yet)
\*   media_array  the media items built so far
\*   relay_log    one entry per call of upload_to_telegram
\*   store_log    one entry per call of the Firebase client made by the handler
\*   caught       the exception the handler's except clause caught ("" if none)
\*   status, detail, media_count   the response (status 0: none yet)
\*   tasks        background tasks added and not yet run
\*   task_log     one entry per background task run
IdleReq ==
    [kind |-> "idle", token |-> << >>, user_id |-> << >>, other_id |-> << >>,
     post_id |-> 0, files |-> << >>, caption |-> << >>, pc |-> "idle", i |-> 0,
     new_id |-> 0, media_array |-> << >>, relay_log |-> << >>, store_log |-> << >>,
     caught |-> "", status |-> 0, detail |-> "", media_count |-> 0,
     tasks |-> << >>, task_log |-> << >>]

NewReq(kind, token, user_id, other_id, post_id, files, caption) ==
    [IdleReq EXCEPT !.kind = kind, !.token = token, !.user_id = user_id,
                    !.other_id = other_id, !.post_id = post_id, !.files = files,
                    !.caption = caption, !.pc = "arrived"]

\* the response leaves the handler
Respond(r, status, detail) ==
    [r EXCEPT !.status = status, !.detail = detail,
              !.pc = IF r.tasks = << >> \/ status /= 200 THEN "done" ELSE "tasks",
              !.tasks = IF status = 200 THEN @ ELSE << >>]

\* raise HTTPException(status_code, detail) outside any try block
RaiseHTTP(r, status, detail) == Respond(r, status, detail)

\* (variant without the strip() test)
TokenRejected_Mutant(token) == token = << >>
\* verify_user_token(token): TRUE when the dependency raises HTTPException(401)
\* (main.py:91-95)
TokenRejected(token) == token = << >> \/ Strip(token) = << >>

\* The except clauses of the handlers: the response to the exception e raised
\* inside the handler's try block.
\* upload_post, main.py:308-316
upload_post_except(r, e) ==
    LET c == [r EXCEPT !.caught = e] IN
    CASE e = "TelegramUploadError" -> Respond(c, 500, "Failed to upload to Telegram")
      [] e = "FirebaseError" -> Respond(c, 500, "Failed to store post")
      [] OTHER -> Respond(c, 500, "Internal server error")
\* create_user 161-163, upload_story 404-406, like_post 451-453,
\* add_comment 516-518, follow_user 563-565
HandlerExcept(r, e) ==
    LET c == [r EXCEPT !.caught = e] IN
    CASE r.kind = "upload_post" -> upload_post_except(r, e)
      [] r.kind = "create_user" -> Respond(c, 500, "Failed to create user")
      [] r.kind = "upload_story" -> Respond(c, 500, "Failed to upload story")
      [] r.kind = "like_post" -> Respond(c, 500, "Failed to like post")
      [] r.kind = "add_comment" -> Respond(c, 500, "Failed to add comment")
      [] OTHER -> Respond(c, 500, "Failed to follow user")

\* the type and size checks of one file of /upload-post/   (main.py:208-220)
PostFileTypeOk(f) == f.content_type \in POST_ALLOWED_TYPES
\* (variant with >= in the size test)
PostFileSizeOk_Mutant(f) == ~(f.size >= MAX_FILE_SIZE)
PostFileSizeOk(f) == ~(f.size > MAX_FILE_SIZE)

\* the first position k >= i of a file that passes both checks (Len(files) + 1
\* when there is none): the files before it are skipped by `continue`
RECURSIVE NextUpload(_, _)
NextUpload(files, i) ==
    IF i > Len(files) THEN i
    ELSE IF PostFileTypeOk(files[i]) /\ PostFileSizeOk(files[i]) THEN i
    ELSE NextUpload(files, i + 1)

\* (variant that leaves the loop as soon as one file has been uploaded)
PostLoop_Mutant(r, i) ==
    IF r.media_array = << >> /\ NextUpload(r.files, i) <= Len(r.files)
    THEN [r EXCEPT !.i = NextUpload(r.files, i), !.pc = "post_upload"]
    ELSE IF r.media_array = << >>
         THEN upload_post_except([r EXCEPT !.i = Len(r.files) + 1], "HTTPException")
         ELSE [r EXCEPT !.i = Len(r.files) + 1, !.pc = "store_posts"]

\* upload_post's loop from position i on, up to its next call of
\* upload_to_telegram or, past the last file, to the check of media_array
\* (main.py:206-243)
PostLoop(r, i) ==
    IF NextUpload(r.files, i) <= Len(r.files)
    THEN [r EXCEPT !.i = NextUpload(r.files, i), !.pc = "post_upload"]
    ELSE IF r.media_array = << >>
         THEN upload_post_except([r EXCEPT !.i = Len(r.files) + 1], "HTTPException")
         ELSE [r EXCEPT !.i = Len(r.files) + 1, !.pc = "store_posts"]

\* The handler of a request, from its start to its first outbound call; id is
\* the next uuid4().
\* (variant in which post_id is a fixed string instead of a new uuid4())
upload_post_begin_Mutant(r, id) ==
    IF r.files = << >> THEN RaiseHTTP(r, 400, "No files provided")
    ELSE IF Len(r.files) > MAX_FILES_PER_POST
         THEN RaiseHTTP(r, 400, "Maximum 10 files allowed per post")
         ELSE PostLoop([r EXCEPT !.new_id = 1], 1)
\* upload_post, main.py:183-243
upload_post_begin(r, id) ==
    IF r.files = << >> THEN RaiseHTTP(r, 400, "No files provided")
    ELSE IF Len(r.files) > MAX_FILES_PER_POST
         THEN RaiseHTTP(r, 400, "Maximum 10 files allowed per post")
         ELSE PostLoop([r EXCEPT !.new_id = id], 1)
\* upload_story, main.py:332-338
upload_story_begin(r) ==
    IF r.files[1].content_type \notin STORY_ALLOWED_TYPES
    THEN HandlerExcept(r, "HTTPException")
    ELSE [r EXCEPT !.i = 1, !.pc = "story_upload"]

Begin(r, id) ==
    CASE r.kind = "create_user" -> [r EXCEPT !.pc = "user_set"]
      [] r.kind = "upload_post" -> upload_post_begin(r, id)
      [] r.kind = "upload_story" -> upload_story_begin(r)
      [] r.kind = "like_post" -> [r EXCEPT !.new_id = id, !.pc = "like_set"]
      [] r.kind = "add_comment" -> [r EXCEPT !.new_id = id, !.pc = "comment_set"]
      [] OTHER -> [r EXCEPT !.new_id = id, !.pc = "follow_set"]

\* FastAPI resolves Depends(verify_user_token) before it calls the handler
Dispatch(r, id) ==
    IF TokenRejected(r.token) THEN RaiseHTTP(r, 401, "Invalid token") ELSE Begin(r, id)

\* the requests a client can send, given the posts it can have seen
RequestInputs(d) ==
    {NewReq("create_user", t, u, << >>, 0, << >>, << >>) : t \in TokenInputs, u \in Users}
    \cup {NewReq("upload_post", t, u, << >>, 0, fs, c) :
             t \in TokenInputs, u \in Users, fs \in FileListInputs, c \in CaptionInputs}
    \cup {NewReq("upload_story", t, u, << >>, 0, <<f>>, << >>) :
             t \in TokenInputs, u \in Users, f \in StoryFileInputs}
    \cup {NewReq(k, t, u, << >>, p, << >>, << >>) :
             k \in {"like_post", "add_comment"}, t \in TokenInputs, u \in Users,
             p \in (DOMAIN d.posts) \cup {0}}
    \cup {NewReq("follow_user", t, u, v, 0, << >>, << >>) :
             t \in TokenInputs, u \in Users, v \in Users}

Init ==
    /\ bot_tokens \in {TokensOfEnv(e) : e \in EnvInputs}
    /\ db = EmptyDb
    /\ req = [w \in Workers |-> IdleReq]
    /\ served = 0
    /\ next_id = 0

\* the worker has no request in hand
Free(w) == req[w].pc \in {"idle", "done"}

\* A request arrives at the first free worker: the token dependency runs, then the
\* handler up to its first outbound call.
Arrive(w) ==
    /\ Free(w)
    /\ \A v \in Workers : v < w => ~Free(v)
    /\ served < MaxRequests
    /\ \E r \in RequestInputs(db) :
         /\ req' = [req EXCEPT ![w] = Dispatch(r, next_id + 1)]
         /\ next_id' = IF Dispatch(r, next_id + 1).new_id /= 0 THEN next_id + 1 ELSE next_id
    /\ served' = served + 1
    /\ UNCHANGED <<bot_tokens, db>>

\* ------------------------------------------------------------ handler steps
\* the handler's call of the Firebase client is logged; ok: the call succeeded
StoreCall(r, op, coll, ok) ==
    [r EXCEPT !.store_log = Append(@, [op |-> op, coll |-> coll, ok |-> ok])]

\* the call of upload_to_telegram for the file at position r.i is logged
RelayCall(r, res) ==
    [r EXCEPT !.relay_log = Append(@, [pos |-> r.i,
                                        content_type |-> r.files[r.i].content_type,
                                        size |-> r.files[r.i].size,
                                        raised |-> res.raised,
                                        http_calls |-> res.http_calls])]

\* media_item of upload_post   (main.py:226-238)
MediaItem(f, order_index) ==
    [file_type |-> f.content_type, file_size |-> f.size,
     media_type |-> MediaType(f.content_type), order_index |-> order_index]

\* post_data of upload_post   (main.py:246-290)
PostData(r) ==
    [body |-> TRUE, user_id |-> r.user_id, media |-> r.media_array,
     hashtags |-> extract_hashtags(r.caption),
     like_count |-> JNum(0), comment_count |-> JNum(0)]

\* user_data of create_user   (main.py:113-151)
UserData(r) ==
    [profile |-> TRUE, posts |-> JNum(0), followers |-> JNum(0), following |-> JNum(0),
     last_post_at |-> FALSE]

\* f"{follower_id}_{following_id}"   (main.py:548)
FollowKey(follower_id, following_id) == follower_id \o <<"_">> \o following_id

\* a background task: the function and its arguments.  create_activity's first
\* argument target_user_id is a post id when a like or a comment schedules it
\* (post_id) and a user id when a follow does (user_id).
Task(fn, user_id, post_id, field, tags) ==
    [fn |-> fn, user_id |-> user_id, post_id |-> post_id, field |-> field, tags |-> tags]

\* the tasks a handler adds before it returns
\* (main.py:296-298, 443, 508, 551-555)
TasksOf(r) ==
    CASE r.kind = "upload_post" ->
            <<Task("update_user_counts", r.user_id, 0, "posts", << >>),
              Task("update_hashtags", << >>, r.new_id, "", extract_hashtags(r.caption)),
              Task("update_user_last_post", r.user_id, 0, "", << >>)>>
      [] r.kind = "like_post" ->
            <<Task("create_activity", << >>, r.post_id, "like", << >>)>>
      [] r.kind = "add_comment" ->
            <<Task("create_activity", << >>, r.post_id, "comment", << >>)>>
      [] r.kind = "follow_user" ->
            <<Task("update_user_counts", r.user_id, 0, "following", << >>),
              Task("update_user_counts", r.other_id, 0, "followers", << >>),
              Task("create_activity", r.other_id, 0, "follow", << >>)>>
      [] OTHER -> << >>

\* The name background_tasks is bound in a handler only when the handler declares
\* the parameter: upload_post does (main.py:169); like_post (411-418),
\* add_comment (456-464) and follow_user (521-527) do not, and the module has no
\* global of that name.
BindsBackgroundTasks(kind) == kind = "upload_post"

\* background_tasks.add_task(...) for every task of the handler, then its
\* `return {"status": "success", ...}`; the unbound name raises NameError inside
\* the try block.
AddTasksAndReturn(r, detail) ==
    IF BindsBackgroundTasks(r.kind)
    THEN Respond([r EXCEPT !.tasks = TasksOf(r), !.media_count = Len(r.media_array)],
                 200, detail)
    ELSE HandlerExcept(r, "NameError")

\* create_user: firebase_client.set_data(f"users/{user_id}", user_data)   (main.py:153-163)
UserSet(w) ==
    /\ req[w].pc = "user_set"
    /\ \E ok \in BOOLEAN :
         LET r == StoreCall(req[w], "set", "users", ok) IN
         /\ db' = IF ok THEN set_data(db, <<"users", r.user_id>>, UserData(r)) ELSE db
         /\ req' = [req EXCEPT ![w] = IF ok THEN Respond(r, 200, "User profile created/updated")
                                              ELSE HandlerExcept(r, "FirebaseError")]
    /\ UNCHANGED <<bot_tokens, served, next_id>>

\* upload_post: upload_to_telegram for the file at position i, then the loop up
\* to the next upload   (main.py:223-243)
PostUpload(w) ==
    /\ req[w].pc = "post_upload"
    /\ \E resp \in RelayResponses, pick \in Picks(bot_tokens) :
         LET res == upload_to_telegram(bot_tokens, pick, resp)
             r == RelayCall(req[w], res)
         IN req' = [req EXCEPT ![w] =
                IF res.raised = ""
                THEN PostLoop([r EXCEPT !.media_array =
                                   Append(@, MediaItem(r.files[r.i], r.i - 1))], r.i + 1)
                ELSE upload_post_except(r, res.raised)]
    /\ UNCHANGED <<bot_tokens, db, served, next_id>>

\* (variant that logs and does not re-raise)
store_post_data_except_Mutant(e) == ""
\* store_post_data's except clause: the exception that leaves the function when
\* one of its writes raised e; nothing is undone   (main.py:634-636)
store_post_data_except(e) == IF e = "" THEN "" ELSE "FirebaseError"

\* upload_post after store_post_data's call of the Firebase client failed
StoreFailed(r) ==
    IF store_post_data_except("FirebaseError") = ""
    THEN AddTasksAndReturn(r, "Post uploaded successfully")
    ELSE upload_post_except(r, store_post_data_except("FirebaseError"))

\* store_post_data: firebase_client.set_data(f"posts/{post_id}", post_data)
\* (main.py:616)
StorePosts(w) ==
    /\ req[w].pc = "store_posts"
    /\ \E ok \in BOOLEAN :
         LET r == StoreCall(req[w], "set", "posts", ok) IN
         /\ db' = IF ok THEN set_data(db, <<"posts", r.new_id>>, PostData(r)) ELSE db
         /\ req' = [req EXCEPT ![w] = IF ok THEN [r EXCEPT !.pc = "store_user_posts"]
                                              ELSE StoreFailed(r)]
    /\ UNCHANGED <<bot_tokens, served, next_id>>

\* store_post_data: set_data(f"user_posts/{user_id}/{post_id}", ...)   (main.py:619-622)
StoreUserPosts(w) ==
    /\ req[w].pc = "store_user_posts"
    /\ \E ok \in BOOLEAN :
         LET r == StoreCall(req[w], "set", "user_posts", ok) IN
         /\ db' = IF ok THEN set_data(db, <<"user_posts", r.user_id, r.new_id>>, r.new_id)
                         ELSE db
         /\ req' = [req EXCEPT ![w] = IF ok THEN [r EXCEPT !.pc = "store_timeline"]
                                              ELSE StoreFailed(r)]
    /\ UNCHANGED <<bot_tokens, served, next_id>>

\* store_post_data: push_data("timeline", ...), then upload_post adds its
\* background tasks and returns   (main.py:625-630, 296-306)
StoreTimeline(w) ==
    /\ req[w].pc = "store_timeline"
    /\ \E ok \in BOOLEAN :
         LET r == StoreCall(req[w], "push", "timeline", ok) IN
         /\ db' = IF ok THEN push_data(db, <<"timeline">>,
                                       [post_id |-> r.new_id, user_id |-> r.user_id])
                         ELSE db
         /\ req' = [req EXCEPT ![w] = IF ok THEN AddTasksAndReturn(r, "Post uploaded successfully")
                                              ELSE StoreFailed(r)]
    /\ UNCHANGED <<bot_tokens, served, next_id>>

\* upload_story: upload_to_telegram, then story_id = uuid4()   (main.py:341-344)
StoryUpload(w) ==
    /\ req[w].pc = "story_upload"
    /\ \E resp \in RelayResponses, pick \in Picks(bot_tokens) :
         LET res == upload_to_telegram(bot_tokens, pick, resp)
             r == RelayCall(req[w], res)
         IN /\ req' = [req EXCEPT ![w] =
                   IF res.raised = ""
                   THEN [r EXCEPT !.new_id = next_id + 1, !.pc = "story_set"]
                   ELSE HandlerExcept(r, res.raised)]
            /\ next_id' = IF res.raised = "" THEN next_id + 1 ELSE next_id
    /\ UNCHANGED <<bot_tokens, db, served>>

\* upload_story: set_data(f"stories/{user_id}/{story_id}", story_data)   (main.py:395-406)
StorySet(w) ==
    /\ req[w].pc = "story_set"
    /\ \E ok \in BOOLEAN :
         LET r == StoreCall(req[w], "set", "stories", ok) IN
         /\ db' = IF ok THEN set_data(db, <<"stories", r.user_id, r.new_id>>, r.new_id)
                         ELSE db
         /\ req' = [req EXCEPT ![w] = IF ok THEN Respond(r, 200, "Story uploaded successfully")
                                              ELSE HandlerExcept(r, "FirebaseError")]
    /\ UNCHANGED <<bot_tokens, served, next_id>>

\* like_post: set_data(f"likes/{post_id}/{like_id}", like_data)   (main.py:437)
LikeSet(w) ==
    /\ req[w].pc = "like_set"
    /\ \E ok \in BOOLEAN :
         LET r == StoreCall(req[w], "set", "likes", ok) IN
         /\ db' = IF ok THEN set_data(db, <<"likes", r.post_id, r.new_id>>, r.new_id) ELSE db
         /\ req' = [req EXCEPT ![w] = IF ok THEN [r EXCEPT !.pc = "like_count"]
                                              ELSE HandlerExcept(r, "FirebaseError")]
    /\ UNCHANGED <<bot_tokens, served, next_id>>

\* like_post: update_data(f"posts/{post_id}/engagement", {"like_count": "INCREMENT"}),
\* then add_task and return   (main.py:440-453)
LikeCount(w) ==
    /\ req[w].pc = "like_count"
    /\ \E ok \in BOOLEAN :
         LET r == StoreCall(req[w], "update", "posts", ok) IN
         /\ db' = IF ok THEN update_data(db, <<"posts", r.post_id, "engagement">>,
                                         "like_count", JStr("INCREMENT"))
                         ELSE db
         /\ req' = [req EXCEPT ![w] = IF ok THEN AddTasksAndReturn(r, "Post liked")
                                              ELSE HandlerExcept(r, "FirebaseError")]
    /\ UNCHANGED <<bot_tokens, served, next_id>>

\* add_comment: set_data(f"comments/{post_id}/{comment_id}", comment_data)   (main.py:502)
CommentSet(w) ==
    /\ req[w].pc = "comment_set"
    /\ \E ok \in BOOLEAN :
         LET r == StoreCall(req[w], "set", "comments", ok) IN
         /\ db' = IF ok THEN set_data(db, <<"comments", r.post_id, r.new_id>>, r.new_id)
                         ELSE db
         /\ req' = [req EXCEPT ![w] = IF ok THEN [r EXCEPT !.pc = "comment_count"]
                                              ELSE HandlerExcept(r, "FirebaseError")]
    /\ UNCHANGED <<bot_tokens, served, next_id>>

\* add_comment: update_data(f"posts/{post_id}/engagement", {"comment_count": "INCREMENT"}),
\* then add_task and return   (main.py:505-518)
CommentCount(w) ==
    /\ req[w].pc = "comment_count"
    /\ \E ok \in BOOLEAN :
         LET r == StoreCall(req[w], "update", "posts", ok) IN
         /\ db' = IF ok THEN update_data(db, <<"posts", r.post_id, "engagement">>,
                                         "comment_count", JStr("INCREMENT"))
                         ELSE db
         /\ req' = [req EXCEPT ![w] = IF ok THEN AddTasksAndReturn(r, "Comment added")
                                              ELSE HandlerExcept(r, "FirebaseError")]
    /\ UNCHANGED <<bot_tokens, served, next_id>>

\* follow_user: set_data(f"follows/{follower_id}_{following_id}", follow_data), then
\* add_task and return   (main.py:548-565)
FollowSet(w) ==
    /\ req[w].pc = "follow_set"
    /\ \E ok \in BOOLEAN :
         LET r == StoreCall(req[w], "set", "follows", ok) IN
         /\ db' = IF ok THEN set_data(db, <<"follows", FollowKey(r.user_id, r.other_id)>>,
                                      [follow_id |-> r.new_id, follower_id |-> r.user_id,
                                       following_id |-> r.other_id])
                         ELSE db
         /\ req' = [req EXCEPT ![w] = IF ok THEN AddTasksAndReturn(r, "User followed")
                                              ELSE HandlerExcept(r, "FirebaseError")]
    /\ UNCHANGED <<bot_tokens, served, next_id>>

\* --------------------------------------------------------- background tasks
\* the number of Firebase calls the task makes when none of them fails
TaskCalls(t) == IF t.fn = "update_hashtags" THEN Len(t.tags) ELSE 1

\* update_hashtags' loop over the first n hashtags   (main.py:658-669)
RECURSIVE HashtagWrites(_, _, _)
HashtagWrites(d, tags, n) ==
    IF n = 0 THEN d
    ELSE set_data(HashtagWrites(d, tags, n - 1), <<"hashtags", Lower(tags[n])>>,
                  JStr("INCREMENT"))

\* the database after the first n Firebase calls of task t have succeeded; id is
\* the uuid4() of create_activity
\* update_user_counts 641, update_user_last_post 648-651, update_hashtags 658-669,
\* create_activity 678-701
TaskWrites(d, t, n, id) ==
    CASE t.fn = "update_hashtags" -> HashtagWrites(d, t.tags, n)
      [] n = 0 -> d
      [] t.fn = "update_user_counts" ->
            update_data(d, <<"users", t.user_id, "counts">>, t.field, JStr("INCREMENT"))
      [] t.fn = "update_user_last_post" ->
            update_data(d, <<"users", t.user_id, "metadata">>, "last_post_at", TRUE)
      [] OTHER ->
            push_data(d, <<"activities", t.user_id>>,
                      [activity_id |-> id, user_id |-> t.user_id, post_id |-> t.post_id,
                       type |-> t.field])

\* (variant in which update_hashtags has no try / except)
TaskEscapes_Mutant(fn, e) == IF fn = "update_hashtags" THEN e ELSE ""
\* The exception that leaves the task function when its body raised e: each of the
\* four functions wraps its whole body in try / except Exception, which logs
\* (main.py:642-643, 652-653, 671-672, 703-704)
TaskEscapes(fn, e) == ""

\* The head task of the worker's request runs.  n is the number of its Firebase
\* calls that succeed; the call after them, if the task has one, fails with
\* FirebaseError.  The tasks of one response run in the order they were added; an
\* exception that left a task would end the run of the remaining ones.
RunTask(w) ==
    /\ req[w].pc = "tasks"
    /\ \E n \in 0..TaskCalls(Head(req[w].tasks)) :
         LET r == req[w]
             t == Head(r.tasks)
             e == IF n < TaskCalls(t) THEN "FirebaseError" ELSE ""
             out == TaskEscapes(t.fn, e)
             rest == IF out = "" THEN Tail(r.tasks) ELSE << >>
         IN /\ db' = TaskWrites(db, t, n, next_id + 1)
            /\ req' = [req EXCEPT ![w] =
                   [r EXCEPT !.tasks = rest,
                             !.task_log = Append(@, [fn |-> t.fn,
                                                      calls |-> IF n < TaskCalls(t) THEN n + 1 ELSE n,
                                                      failed |-> e /= "",
                                                      escaped |-> out]),
                             !.pc = IF rest = << >> THEN "done" ELSE "tasks"]]
            /\ next_id' = IF t.fn = "create_activity" THEN next_id + 1 ELSE next_id
    /\ UNCHANGED <<bot_tokens, served>>

Next ==
    \E w \in Workers :
        \/ Arrive(w)
        \/ UserSet(w)
        \/ PostUpload(w)
        \/ StorePosts(w)
        \/ StoreUserPosts(w)
        \/ StoreTimeline(w)
        \/ StoryUpload(w)
        \/ StorySet(w)
        \/ LikeSet(w)
        \/ LikeCount(w)
        \/ CommentSet(w)
        \/ CommentCount(w)
        \/ FollowSet(w)
        \/ RunTask(w)

Spec == Init /\ [][Next]_vars

\* ------------------------------------------------- the task functions alone
\* The four task functions run on the queues the handlers build, whether or not
\* the handler gets as far as adding them: each worker starts with a request that
\* has been answered with success and the tasks of its handler still to run.
TaskBearing ==
    {NewReq("upload_post", <<"a">>, u, << >>, 0,
            <<[content_type |-> <<"image", "jpeg">>, size |-> 1]>>, c) :
        u \in Users, c \in CaptionInputs}
    \cup {NewReq(k, <<"a">>, u, << >>, 0, << >>, << >>) :
            k \in {"like_post", "add_comment"}, u \in Users}
    \cup {NewReq("follow_user", <<"a">>, u, v, 0, << >>, << >>) : u \in Users, v \in Users}

Answered(r) == Respond([r EXCEPT !.tasks = TasksOf(r)], 200, "success")

InitTasks ==
    /\ bot_tokens = TokensOfEnv(<< >>)
    /\ db = EmptyDb
    /\ req \in [Workers -> {Answered(r) : r \in TaskBearing}]
    /\ served = MaxRequests
    /\ next_id = 0

NextTasks == \E w \in Workers : RunTask(w)

SpecTasks == InitTasks /\ [][NextTasks]_vars

\* ------------------------------------------ bot.py: the failover relay client
\* BOT_TOKENS of bot.py, each credential named by its bot id
BOT_TOKENS == <<"7689288290", "7401204367">>

\* What one requests.post(url, ...).json() of upload_file_to_telegram can meet:
\*   net_error    requests.post raises (no connection, timeout)
\*   bad_json     the body is not JSON and .json() raises
\*   ok_false     {"ok": false, ...}
\*   photo        {"ok": true, "result": {"photo": [..., {file_id, file_unique_id}]}}
\*   missing      {"ok": true} without "result"
\*   photo_empty  {"ok": true, "result": {"photo": []}}
BotResponses == {"net_error", "bad_json", "ok_false", "photo", "missing", "photo_empty"}

\* resp.get("ok")
BotOk(resp) == resp \in {"photo", "missing", "photo_empty"}

\* the exception that leaves one iteration of the for loop: the loop body has no
\* try, so whatever requests.post, .json() or the subscripts raise leaves the
\* function
BotIterationRaises(resp) ==
    CASE resp = "net_error" -> "ConnectionError"
      [] resp = "bad_json" -> "JSONDecodeError"
      [] resp = "missing" -> "KeyError"
      [] resp = "photo_empty" -> "IndexError"
      [] OTHER -> ""

\* photo_obj["file_id"], photo_obj["file_unique_id"] of the upload made with
\* bot_token
BotFileIds(bot_token) == <<<<"file_id", bot_token>>, <<"file_unique_id", bot_token>>>>

\* a call of upload_file_to_telegram that has not been made yet
IdleCall == [pc |-> "idle", i |-> 0, posts |-> << >>, returned |-> << >>, raised |-> ""]

\* one iteration of "for bot_token in BOT_TOKENS" of call c, the API answering
\* resp, followed by the raise after the loop when that was the last credential
BotIterate(c, resp) ==
    LET bot_token == BOT_TOKENS[c.i]
        d == [c EXCEPT !.posts = Append(@, [bot_token |-> bot_token, resp |-> resp])]
    IN IF BotIterationRaises(resp) /= ""
       THEN [d EXCEPT !.pc = "raised", !.raised = BotIterationRaises(resp)]
       ELSE IF BotOk(resp)
            THEN [d EXCEPT !.pc = "returned", !.returned = BotFileIds(bot_token)]
            ELSE IF c.i < Len(BOT_TOKENS)
                 THEN [d EXCEPT !.i = c.i + 1]
                 ELSE [d EXCEPT !.pc = "raised", !.raised = "Exception"]

InitFailover ==
    /\ bot_tokens = BOT_TOKENS
    /\ db = EmptyDb
    /\ req = [w \in Workers |-> IdleCall]
    /\ served = 0
    /\ next_id = 0

\* upload_file_to_telegram is called: the loop starts at the first credential
BotCall(w) ==
    /\ req[w].pc = "idle"
    /\ req' = [req EXCEPT ![w] = [IdleCall EXCEPT !.pc = "loop", !.i = 1]]
    /\ served' = served + 1
    /\ UNCHANGED <<bot_tokens, db, next_id>>

BotPost(w) ==
    /\ req[w].pc = "loop"
    /\ \E resp \in BotResponses : req' = [req EXCEPT ![w] = BotIterate(req[w], resp)]
    /\ UNCHANGED <<bot_tokens, db, served, next_id>>

NextFailover == \E w \in Workers : BotCall(w) \/ BotPost(w)

SpecFailover == InitFailover /\ [][NextFailover]_vars

\* ------------------------------------------------- the extractors alone
\* the characters of the texts: both markers, word characters of both cases,
\* and characters that end a run
TextChars == {"#", "@", "a", "A", "_", " ", "!"}

\* every text of at most MaxTextLen characters, and one longer caption with two
\* tags that differ in case and length, a bare marker and closing punctuation
TextInputs ==
    UNION {[1..n -> TextChars] : n \in 0..MaxTextLen}
    \cup {<<"a", " ", "#", "A", "b", " ", "@", " ", "#", "a", "b", "1", "!">>}

\* a call of extract_hashtags or extract_mentions on text that has not run yet
NewScan(text) == [text |-> text, pc |-> "call", fn |-> "", tokens |-> << >>]

InitExtract ==
    /\ bot_tokens = TokensOfEnv(<< >>)
    /\ db = EmptyDb
    /\ \E text \in TextInputs : req = [w \in Workers |-> NewScan(text)]
    /\ served = 0
    /\ next_id = 0

ExtractHashtags(w) ==
    /\ req[w].pc = "call"
    /\ req' = [req EXCEPT ![w] = [@ EXCEPT !.pc = "done", !.fn = "extract_hashtags",
                                            !.tokens = extract_hashtags(req[w].text)]]
    /\ UNCHANGED <<bot_tokens, db, served, next_id>>

ExtractMentions(w) ==
    /\ req[w].pc = "call"
    /\ req' = [req EXCEPT ![w] = [@ EXCEPT !.pc = "done", !.fn = "extract_mentions",
                                            !.tokens = extract_mentions(req[w].text)]]
    /\ UNCHANGED <<bot_tokens, db, served, next_id>>

NextExtract == \E w \in Workers : ExtractHashtags(w) \/ ExtractMentions(w)

SpecExtract == InitExtract /\ [][NextExtract]_vars

\* ------------------------------------------------- the counter updates alone
\* Every call that patches a counter, run on a store that holds earlier values:
\* like_post and add_comment stand before their update_data, the handlers that
\* add update_user_counts have answered and their tasks are still to run.

\* the store after create_user of <<"a">> and one /upload-post/ of theirs (post 1)
\* whose three writes succeeded and whose tasks have not run yet
SeededDb ==
    LET f == [content_type |-> <<"image", "jpeg">>, size |-> 1]
        r == [NewReq("upload_post", <<"a">>, <<"a">>, << >>, 0, <<f>>, << >>)
                EXCEPT !.new_id = 1, !.media_array = <<MediaItem(f, 0)>>]
        d1 == set_data(EmptyDb, <<"users", <<"a">>>>, UserData(r))
        d2 == set_data(d1, <<"posts", 1>>, PostData(r))
        d3 == set_data(d2, <<"user_posts", <<"a">>, 1>>, 1)
    IN push_data(d3, <<"timeline">>, [post_id |-> 1, user_id |-> <<"a">>])

\* like_post or add_comment of worker w on post p, after its set_data succeeded
AtCount(kind, w, p) ==
    [StoreCall([NewReq(kind, <<"a">>, <<"a">>, << >>, p, << >>, << >>) EXCEPT !.new_id = 1 + w],
               "set", IF kind = "like_post" THEN "likes" ELSE "comments", TRUE)
       EXCEPT !.pc = IF kind = "like_post" THEN "like_count" ELSE "comment_count"]

\* the store once the set_data of such a request is in it
Written(d, r) ==
    CASE r.kind = "like_post" -> set_data(d, <<"likes", r.post_id, r.new_id>>, r.new_id)
      [] r.kind = "add_comment" -> set_data(d, <<"comments", r.post_id, r.new_id>>, r.new_id)
      [] OTHER -> d

CounterCalls(w) ==
    {AtCount(k, w, p) : k \in {"like_post", "add_comment"}, p \in {0, 1}}
    \cup {Answered(r) : r \in {x \in TaskBearing : x.kind \in {"upload_post", "follow_user"}}}

InitCounters ==
    /\ bot_tokens = TokensOfEnv(<< >>)
    /\ req \in {f \in [Workers -> UNION {CounterCalls(w) : w \in Workers}] :
                  \A w \in Workers : f[w] \in CounterCalls(w)}
    /\ \E base \in {EmptyDb, SeededDb} : db = Written(Written(base, req[1]), req[2])
    /\ served = MaxRequests
    /\ next_id = 1 + Cardinality(Workers)

NextCounters == \E w \in Workers : LikeCount(w) \/ CommentCount(w) \/ RunTask(w)

SpecCounters == InitCounters /\ [][NextCounters]_vars

\* ================================================================== claims
\* the requests the workers hold (a worker's last request stays until the next)
Held == {req[w] : w \in Workers} \ {IdleReq}
\* the request has its response
HasResponse(r) == r.status /= 0
\* the allow-list and the size ceiling as the specification states them
SpecAllowList ==
    {<<"image", "jpeg">>, <<"image", "png">>, <<"image", "gif">>, <<"image", "webp">>,
     <<"video", "mp4">>}
SpecTypeOk(f) == f.content_type \in SpecAllowList
SpecSizeOk(f) == f.size <= 10 * 1024 * 1024
\* a token that is empty or holds white space only
BlankToken(t) == \A k \in 1..Len(t) : t[k] = " "
\* the positions of the files that pass both checks, in input order
PassingPositions(files) == {k \in 1..Len(files) : SpecTypeOk(files[k]) /\ SpecSizeOk(files[k])}
\* no relay call and no store call of the request has failed
NoDependencyFailure(r) ==
    /\ \A k \in 1..Len(r.relay_log) : r.relay_log[k].raised = ""
    /\ \A k \in 1..Len(r.store_log) : r.store_log[k].ok
\* the number of media items whose file stands before position k
Before(files, k) == Cardinality({j \in PassingPositions(files) : j < k})

\* C1: on /upload-post/ and /upload-story/ no call of the relay upload is ever
\* made for a file whose content type is outside the allow-list.
C1_NoRelayCallForDisallowedType ==
    \A r \in Held : \A k \in 1..Len(r.relay_log) :
        r.files[r.relay_log[k].pos].content_type \in SpecAllowList

\* C1 witness: a post with a text/plain file has been answered after another of its
\* files was uploaded, and a story with a text/plain file has been answered
C1_Witness ==
    /\ \E r \in Held :
          /\ r.kind = "upload_post" /\ r.status = 200
          /\ \E k \in 1..Len(r.files) : ~SpecTypeOk(r.files[k])
          /\ r.relay_log /= << >>
    /\ \E r \in Held :
          /\ r.kind = "upload_story" /\ HasResponse(r) /\ ~BlankToken(r.token)
          /\ ~SpecTypeOk(r.files[1])
          /\ r.relay_log = << >>

\* C2: on /upload-post/ and /upload-story/ a payload of more than 10 MiB is never
\* passed to the relay upload and no store write is made for it.
C2_OversizeNeverUploadedNorStored ==
    \A r \in Held :
        /\ \A k \in 1..Len(r.relay_log) : SpecSizeOk([size |-> r.relay_log[k].size])
        /\ r.kind = "upload_story" /\ ~SpecSizeOk(r.files[1]) => r.store_log = << >>

C4_PartialBatchSucceeds ==
    \A r \in Held :
        (/\ r.kind = "upload_post" /\ HasResponse(r) /\ ~BlankToken(r.token)
         /\ Len(r.files) >= 1 /\ Len(r.files) <= 10
         /\ PassingPositions(r.files) /= {}
         /\ NoDependencyFailure(r))
        => /\ r.status = 200
           /\ r.media_count = Cardinality(PassingPositions(r.files))
           /\ r.new_id \in DOMAIN db.posts
           /\ Len(db.posts[r.new_id].media) = Cardinality(PassingPositions(r.files))
           /\ \A k \in PassingPositions(r.files) :
                 /\ db.posts[r.new_id].media[Before(r.files, k) + 1].file_type = r.files[k].content_type
                 /\ db.posts[r.new_id].media[Before(r.files, k) + 1].file_size = r.files[k].size

\* C4 witness: a batch of ten files of which two pass was answered with success
C4_Witness ==
    \E r \in Held :
        /\ r.kind = "upload_post" /\ r.status = 200
        /\ Len(r.files) = 10 /\ r.media_count = 2
        /\ Len(db.posts[r.new_id].media) = 2

\* C5: every record under posts/{post_id} has a non-empty media list whose
\* order_index values are strictly increasing.
C5_PostsHaveOrderedMedia ==
    \A p \in DOMAIN db.posts :
        /\ db.posts[p].media /= << >>
        /\ \A j \in 1..Len(db.posts[p].media), k \in 1..Len(db.posts[p].media) :
              j < k => db.posts[p].media[j].order_index < db.posts[p].media[k].order_index

\* C6: a request rejected for a validation reason is answered 400, and 500 is
\* answered only after a relay or store call has failed.
C6_ValidationIs400 ==
    \A r \in Held :
        /\ (/\ r.kind = "upload_post" /\ HasResponse(r) /\ ~BlankToken(r.token)
             /\ \/ r.files = << >>
                \/ Len(r.files) > 10
                \/ PassingPositions(r.files) = {})
            => r.status = 400
        /\ (/\ r.kind = "upload_story" /\ HasResponse(r) /\ ~BlankToken(r.token)
             /\ ~SpecTypeOk(r.files[1]))
            => r.status = 400
        /\ (r.kind \in {"upload_post", "upload_story"} /\ r.status = 500)
            => ~NoDependencyFailure(r)

\* C7: an answered /like-post/, /add-comment/ or /follow-user/ whose store writes
\* all succeeded is a success.
C7_SuccessWhenWritesSucceed ==
    \A r \in Held :
        (/\ r.kind \in {"like_post", "add_comment", "follow_user"}
         /\ HasResponse(r) /\ ~BlankToken(r.token)
         /\ NoDependencyFailure(r))
        => r.status = 200

\* C8: no exception leaves a background task; the response stays the success it
\* was; every task runs once, with no call repeated, and once the queue is empty
\* every task the handler added has run, in order, whichever of them failed.
C8_TasksSwallowFailures ==
    \A r \in Held :
        /\ \A k \in 1..Len(r.task_log) :
              /\ r.task_log[k].escaped = ""
              /\ r.task_log[k].fn = TasksOf(r)[k].fn
              /\ r.task_log[k].calls <= TaskCalls(TasksOf(r)[k])
        /\ r.status = 200
        /\ Len(r.task_log) + Len(r.tasks) = Len(TasksOf(r))
        /\ r.pc = "done" => Len(r.task_log) = Len(TasksOf(r))

\* C8 witness: the first task of an upload failed and the two after it ran, and
\* create_activity failed as the last task of a follow
C8_Witness ==
    /\ \E r \in Held :
          /\ r.kind = "upload_post" /\ r.pc = "done"
          /\ r.task_log[1].failed /\ r.task_log[2].failed /\ ~r.task_log[3].failed
    /\ \E r \in Held :
          /\ r.kind = "follow_user" /\ r.pc = "done"
          /\ r.task_log[3].fn = "create_activity" /\ r.task_log[3].failed

\* C9: when the posts and user_posts writes of store_post_data succeeded and the
\* timeline push failed, the request is answered with an error while the post is
\* present under posts/{post_id} and user_posts/{user_id}/{post_id} and absent
\* from the timeline.
C9_NoUndoOnTimelineFailure ==
    \A r \in Held :
        (/\ r.kind = "upload_post"
         /\ Len(r.store_log) = 3
         /\ r.store_log[1].ok /\ r.store_log[2].ok /\ ~r.store_log[3].ok)
        => /\ r.status = 500
           /\ r.new_id \in DOMAIN db.posts
           /\ db.posts[r.new_id].body
           /\ db.posts[r.new_id].media = r.media_array
           /\ <<r.user_id, r.new_id>> \in db.user_posts
           /\ \A k \in 1..Len(db.timeline) : db.timeline[k].post_id /= r.new_id

\* C9 witness: the timeline push failed after the two writes before it succeeded
C9_Witness ==
    \E r \in Held :
        /\ r.kind = "upload_post" /\ Len(r.store_log) = 3
        /\ r.store_log[1].ok /\ r.store_log[2].ok /\ ~r.store_log[3].ok
        /\ r.new_id \in DOMAIN db.posts

\* C10: a call of upload_to_telegram makes at most one HTTP call, none when no
\* non-blank credential is configured, and either returns or raises
\* TelegramUploadError.
C10_RelayFailsOnlyWithTelegramUploadError ==
    \A r \in Held : \A k \in 1..Len(r.relay_log) :
        /\ r.relay_log[k].http_calls <= 1
        /\ AvailableTokens(bot_tokens) = << >> => r.relay_log[k].http_calls = 0
        /\ r.relay_log[k].raised \in {"", "TelegramUploadError"}

\* C11: upload_file_to_telegram of bot.py tries the credentials in list order, each
\* at most once; it returns the identifiers of the first credential whose upload
\* succeeds, without trying later ones; and it fails only after every credential
\* has been tried and has failed, whatever the kind of failure.
C11_FailoverTriesEveryCredential ==
    \A w \in Workers :
        LET c == req[w]
            failed(k) == c.posts[k].resp /= "photo"
        IN /\ Len(c.posts) <= Len(BOT_TOKENS)
           /\ \A k \in 1..Len(c.posts) : c.posts[k].bot_token = BOT_TOKENS[k]
           /\ c.pc = "returned" =>
                /\ c.posts /= << >>
                /\ ~failed(Len(c.posts))
                /\ \A k \in 1..(Len(c.posts) - 1) : failed(k)
                /\ c.returned = BotFileIds(BOT_TOKENS[Len(c.posts)])
           /\ (c.pc = "raised"
                 /\ \A k \in 1..Len(c.posts) : c.posts[k].resp \in {"net_error", "ok_false"}) =>
                Len(c.posts) = Len(BOT_TOKENS)

\* the characters the claim counts as word characters: letters, digits, underscore
SpecWordChar(c) == c \notin {"#", "@", " ", "!", ","}

\* the positions of text where marker stands directly before a word character
SpecStarts(marker, text) ==
    {k \in 1..(Len(text) - 1) : text[k] = marker /\ SpecWordChar(text[k + 1])}

\* the last position of the maximal run of word characters that begins at k
SpecRunEnd(text, k) ==
    CHOOSE j \in k..Len(text) :
        /\ \A x \in k..j : SpecWordChar(text[x])
        /\ j = Len(text) \/ ~SpecWordChar(text[j + 1])

\* the tokens the claim describes: one per start, in order of appearance
SpecTokens(marker, text) ==
    LET P == SpecStarts(marker, text)
        nth(n) == CHOOSE k \in P : Cardinality({j \in P : j < k}) = n - 1
    IN [n \in 1..Cardinality(P) |-> SubSeq(text, nth(n) + 1, SpecRunEnd(text, nth(n) + 1))]

\* C12: extract_hashtags and extract_mentions return exactly the maximal runs of
\* word characters that directly follow a '#' (respectively '@'), in order of
\* appearance, with their case and their duplicates kept; a marker followed by no
\* word character yields no token.
C12_ExtractorsReturnMarkedRuns ==
    \A w \in Workers :
        /\ req[w].fn = "extract_hashtags" => req[w].tokens = SpecTokens("#", req[w].text)
        /\ req[w].fn = "extract_mentions" => req[w].tokens = SpecTokens("@", req[w].text)

\* both extractors have run on the long caption: two tags kept in order and in
\* their own case, the bare '@' and the closing '!' giving nothing
C12_Witness ==
    /\ req[1].text = <<"a", " ", "#", "A", "b", " ", "@", " ", "#", "a", "b", "1", "!">>
    /\ req[1].fn = "extract_hashtags"
    /\ req[1].tokens = <<<<"A", "b">>, <<"a", "b", "1">>>>
    /\ req[2].fn = "extract_mentions"
    /\ req[2].tokens = << >>

\* C13: /upload-post/ validates, uploads every valid file, writes the store,
\* schedules the background tasks and responds, in that order: no store write is
\* issued before every valid file has been uploaded successfully, and when the
\* relay upload of a file fails the request ends with HTTP 500, no store write
\* and no background task.
C13_UploadPostStepOrder ==
    \A r \in Held : r.kind = "upload_post" =>
        LET uploaded(k) == \E j \in 1..Len(r.relay_log) :
                               r.relay_log[j].pos = k /\ r.relay_log[j].raised = ""
            relay_failed == \E j \in 1..Len(r.relay_log) : r.relay_log[j].raised /= ""
            stored == /\ Len(r.store_log) = 3
                      /\ \A j \in 1..3 : r.store_log[j].ok
            scheduled == r.tasks /= << >> \/ r.task_log /= << >>
        IN /\ r.relay_log /= << >> => Len(r.files) \in 1..10
           /\ \A j \in 1..Len(r.relay_log) : r.relay_log[j].pos \in PassingPositions(r.files)
           /\ r.store_log /= << >> => \A k \in PassingPositions(r.files) : uploaded(k)
           /\ scheduled => stored
           /\ r.status = 200 => stored /\ scheduled
           /\ relay_failed => /\ r.status = 500
                              /\ r.store_log = << >>
                              /\ ~scheduled

\* C13 witness: one post was answered 500 when its second upload failed after the
\* first had succeeded, another was answered 200 after two uploads and three writes
C13_Witness ==
    /\ \E r \in Held :
         /\ r.kind = "upload_post" /\ Len(r.relay_log) = 2
         /\ r.relay_log[1].raised = "" /\ r.relay_log[2].raised /= ""
         /\ r.status = 500 /\ r.store_log = << >>
    /\ \E r \in Held :
         /\ r.kind = "upload_post" /\ Len(r.relay_log) = 2
         /\ r.status = 200 /\ Len(r.store_log) = 3 /\ r.task_log /= << >>

\* the counter fields of a post's engagement group and of a user's counts group
SpecPostCounters == {"like_count", "comment_count"}
SpecUserCounters == {"posts", "followers", "following"}
SpecSentinel == [t |-> "str", n |-> 0, s |-> "INCREMENT"]
\* the value of field g at posts/{pid}, users/{uid} in store d; absent when nothing
\* was written there
SpecPostField(d, pid, g) ==
    IF pid \in DOMAIN d.posts THEN d.posts[pid][g] ELSE [t |-> "absent", n |-> 0, s |-> ""]
SpecUserField(d, uid, g) ==
    IF uid \in DOMAIN d.users THEN d.users[uid][g] ELSE [t |-> "absent", n |-> 0, s |-> ""]

\* a step in which worker w's like_post or add_comment patched its counter
SpecPostIncrement(w) ==
    /\ req[w].pc \in {"like_count", "comment_count"}
    /\ Len(req'[w].store_log) > Len(req[w].store_log)
    /\ req'[w].store_log[Len(req'[w].store_log)].ok
\* a step in which worker w's update_user_counts patched its counter
SpecUserIncrement(w) ==
    /\ req[w].pc = "tasks"
    /\ Head(req[w].tasks).fn = "update_user_counts"
    /\ Len(req'[w].task_log) > Len(req[w].task_log)
    /\ ~req'[w].task_log[Len(req'[w].task_log)].failed

\* C14: every counter increment is one patch that writes the sentinel "INCREMENT"
\* to the named counter field and leaves the other fields of the same group as
\* they were; whatever the field held before, and however many updates were made,
\* it holds the sentinel afterwards and never a count of events.
C14_IncrementWritesSentinelOnly ==
    /\ [][\A w \in Workers :
            /\ SpecPostIncrement(w) =>
                 LET field == IF req[w].kind = "like_post" THEN "like_count" ELSE "comment_count"
                     pid == req[w].post_id
                 IN /\ Len(req'[w].store_log) = Len(req[w].store_log) + 1
                    /\ req'[w].store_log[Len(req'[w].store_log)].op = "update"
                    /\ SpecPostField(db', pid, field) = SpecSentinel
                    /\ \A g \in SpecPostCounters \ {field} :
                         SpecPostField(db', pid, g) = SpecPostField(db, pid, g)
            /\ SpecUserIncrement(w) =>
                 LET field == Head(req[w].tasks).field
                     uid == Head(req[w].tasks).user_id
                 IN /\ req'[w].task_log[Len(req'[w].task_log)].calls = 1
                    /\ field \in SpecUserCounters
                    /\ SpecUserField(db', uid, field) = SpecSentinel
                    /\ \A g \in SpecUserCounters \ {field} :
                         SpecUserField(db', uid, g) = SpecUserField(db, uid, g)]_vars
    /\ [](/\ \A pid \in DOMAIN db.posts : \A g \in SpecPostCounters :
               db.posts[pid][g].t = "num" => db.posts[pid][g].n = 0
          /\ \A uid \in DOMAIN db.users : \A g \in SpecUserCounters :
               db.users[uid][g].t = "num" => db.users[uid][g].n = 0)

\* C14 witness: both workers have patched like_count of the stored post, whose
\* comment_count still holds the 0 it was created with
C14_Witness ==
    /\ \A w \in Workers :
         /\ req[w].kind = "like_post" /\ req[w].post_id = 1
         /\ Len(req[w].store_log) = 2 /\ req[w].store_log[2].ok
    /\ 1 \in DOMAIN db.posts
    /\ db.posts[1].body
    /\ db.posts[1].like_count = SpecSentinel
    /\ db.posts[1].comment_count = [t |-> "num", n |-> 0, s |-> ""]

\* C15: whatever /upload-post/ requests ran, however they interleaved and wherever
\* their store writes failed, every pointer of the global timeline names a post_id
\* for which posts/{post_id} and user_posts/{user_id}/{post_id} both exist, and no
\* post_id stands in the timeline twice.
C15_TimelinePointsAtStoredPosts ==
    /\ \A k \in 1..Len(db.timeline) :
         /\ db.timeline[k].post_id \in DOMAIN db.posts
         /\ db.posts[db.timeline[k].post_id].body
         /\ <<db.timeline[k].user_id, db.timeline[k].post_id>> \in db.user_posts
    /\ \A j, k \in 1..Len(db.timeline) :
         db.timeline[j].post_id = db.timeline[k].post_id => j = k

\* C15 witness: one post reached the timeline while the other, served side by
\* side, lost its user_posts write after its posts record was stored
C15_Witness ==
    /\ Len(db.timeline) = 1
    /\ \E r \in Held :
         /\ r.kind = "upload_post" /\ Len(r.store_log) = 2
         /\ r.store_log[1].ok /\ ~r.store_log[2].ok
         /\ r.new_id \in DOMAIN db.posts
         /\ r.new_id < db.timeline[1].post_id

\* C16: after any sequence of successful /follow-user/ store writes the follows
\* collection holds exactly one record for every (follower_id, following_id) pair
\* that was followed: a repeated follow overwrites the pair's record, and two
\* different pairs never share one.
C16_OneFollowRecordPerPair ==
    LET followed == {<<r.user_id, r.other_id>> :
                        r \in {x \in Held : /\ x.kind = "follow_user"
                                            /\ x.store_log /= << >>
                                            /\ x.store_log[1].ok}}
    IN \A p \in followed :
         Cardinality({k \in DOMAIN db.follows :
                         /\ db.follows[k].follower_id = p[1]
                         /\ db.follows[k].following_id = p[2]}) = 1

====
